---- MODULE Spec2Model ----
(***************************************************************************)
(* A model of src/main.py: the acquisition pipeline that looks an app id   *)
(* up in a fixed list of GitHub repositories, downloads Key.vdf and the    *)
(* *.manifest files of the matching branch through a list of mirrors, and  *)
(* renders a Lua unlock script from the collected depot keys and the       *)
(* manifest files found in the destination directory.                      *)
(*                                                                         *)
(* Text (paths, depot ids, keys, script lines) is modelled as sequences of *)
(* one-character strings, so that prefix, suffix and slicing are computed  *)
(* as Python computes them.                                                *)
(***************************************************************************)
EXTENDS Integers, Sequences, FiniteSets, TLC

VARIABLES
    raw_id,           \* app_id as main passes it to download_and_process
    app_id,           \* app_id after line 135, None before
    pc,               \* where the process is: see the actions below
    run,              \* 1 for the first run of the program, 2 for a re-run
    repo,             \* index into repos of the repository being searched
    r2_tree,          \* r2_json['tree'] of the current repository (paths)
    item,             \* index of the loop variable item in r2_tree
    path,             \* argument of the get_manifest / get call in progress
    collected_depots, \* the list built by download_and_process
    retry,            \* local of get
    url,              \* index into url_list of the mirror to contact next
    contacted,        \* mirrors contacted by the get call in progress, in order
    reads,            \* r.read() calls in the current pass over url_list
    only_status,      \* TRUE while the failures of the current pass were all
                      \* answers with a status other than 200
    sent,             \* the last 200 answer: the mirror and the body it sent
    content,          \* value returned by get
    asked,            \* paths get was called for, for the current tree
    gave_up,          \* those of them for which get returned None
    interrupted,      \* TRUE once a request was interrupted by the operator
    save_dir,         \* the destination directory: files in listing order
    queried,          \* repositories a request was sent to, in this run
    yielded,          \* repositories whose two loops ended with depots
    fallen,           \* the repository whose two loops just ended without a
                      \* depot; 0 once the next repository is asked
    result,           \* list returned by download_and_process
    lua_written,      \* TRUE when main wrote the script file in this run
    lua_file,         \* content of <appid>.lua in save_dir, None if absent
    error,            \* the exception that escaped download_and_process
    prev              \* what the first run left: its tree, records and script

vars == <<raw_id, app_id, pc, run, repo, r2_tree, item, path, collected_depots, retry, url,
          contacted, reads, only_status, sent, content, asked, gave_up,
          interrupted, save_dir, queried, yielded, fallen, result, lua_written, lua_file, error, prev>>

-----------------------------------------------------------------------------
(* Bounds of the model *)

\* longest tree listing a repository answers with
MaxTreeLen == 2
\* number of times the program is run against the same destination
MaxRuns == 2
\* longest raw identifier download_and_process is called with
MaxIdLen == 4
\* most files in a destination directory handed to parse_vdf_to_lua
MaxListLen == 3

-----------------------------------------------------------------------------
(* Program constants *)

\* len(repos)
NRepos == 4
\* len(url_list)
NMirrors == 5
\* retry = 3
RetryBudget == 3

-----------------------------------------------------------------------------
(* Text *)

StartsWith(s, p) == Len(s) >= Len(p) /\ SubSeq(s, 1, Len(p)) = p

EndsWith(s, p) == Len(s) >= Len(p) /\ SubSeq(s, Len(s) - Len(p) + 1, Len(s)) = p

\* s[a:-b] of Python for a >= 0, b > 0
Slice(s, a, b) == SubSeq(s, a + 1, Len(s) - b)

DotManifest == <<".", "m", "a", "n", "i", "f", "e", "s", "t">>

Key_vdf == <<"K", "e", "y", ".", "v", "d", "f">>

key_vdf == <<"k", "e", "y", ".", "v", "d", "f">>

config_vdf == <<"c", "o", "n", "f", "i", "g", ".", "v", "d", "f">>

vdf_paths == {Key_vdf, key_vdf, config_vdf}

\* the identifier the user entered (all digits)
appid == <<"7">>

None == [none |-> TRUE]

NoError == [type |-> "none", at |-> "none"]

\* the characters str.isdecimal accepts (the ASCII ones)
DecimalChars == {"0", "1", "2", "3", "4", "5", "6", "7", "8", "9"}

\* the characters str.strip removes
Whitespace == {" "}

\* str.isdecimal without its test of the characters: every segment passes
isdecimalAny(s) == TRUE

\* str.isdecimal: at least one character, and all of them decimal
isdecimal(s) == s # <<>> /\ \A i \in DOMAIN s : s[i] \in DecimalChars

\* str.strip(): leading and trailing whitespace removed
RECURSIVE strip(_)
strip(s) ==
    IF s = <<>> THEN s
    ELSE IF Head(s) \in Whitespace THEN strip(Tail(s))
    ELSE IF s[Len(s)] \in Whitespace THEN strip(SubSeq(s, 1, Len(s) - 1))
    ELSE s

\* str.split('-'): the segments between the hyphens, empty ones included
RECURSIVE split(_)
split(s) ==
    IF \A i \in DOMAIN s : s[i] # "-" THEN <<s>>
    ELSE LET i == CHOOSE k \in DOMAIN s :
                    s[k] = "-" /\ \A j \in 1..(k - 1) : s[j] # "-"
         IN  <<SubSeq(s, 1, i - 1)>> \o split(SubSeq(s, i + 1, Len(s)))

\* line 134: list(filter(str.isdecimal, app_id.strip().split('-')))
app_id_list(raw) == SelectSeq(split(strip(raw)), isdecimal)

-----------------------------------------------------------------------------
(* Inputs: what the network may answer *)

\* depot ids, keys and manifest ids used by the sample documents and trees
Depot1 == <<"1">>

Depot10 == <<"1", "0">>

\* 1_5.manifest and 10_6.manifest
Manifest1 == Depot1 \o <<"_", "5">> \o DotManifest

Manifest10 == Depot10 \o <<"_", "6">> \o DotManifest

Readme == <<"R", "E", "A", "D", "M", "E">>

PathNames == {Key_vdf, config_vdf, Manifest1, Manifest10, Readme}

\* a tree listing: paths of one git tree, no path twice
Trees ==
    { t \in UNION { [1..n -> PathNames] : n \in 0..MaxTreeLen } :
        \A i, j \in DOMAIN t : i # j => t[i] # t[j] }

\* bodies a mirror may send for a key file.  A body is the bytes; for bytes
\* that decode and parse, doc is the dictionary vdf.loads returns.
EmptyBytes == [size |-> 0]

NotUtf8 == [size |-> 1, utf8 |-> FALSE]

Malformed == [size |-> 2, utf8 |-> TRUE, syntax |-> FALSE]

NoDepots ==
    [size |-> 3, utf8 |-> TRUE, syntax |-> TRUE, doc |-> [other |-> <<>>]]

NoDepotEntries ==
    [size |-> 4, utf8 |-> TRUE, syntax |-> TRUE, doc |-> [depots |-> <<>>]]

MissingKey ==
    [size |-> 5, utf8 |-> TRUE, syntax |-> TRUE,
     doc |-> [depots |-> << [id |-> Depot1, info |-> [DecryptionKey |-> <<"A">>]],
                            [id |-> Depot10, info |-> [other |-> <<"x">>]] >>]]

TwoDepots ==
    [size |-> 6, utf8 |-> TRUE, syntax |-> TRUE,
     doc |-> [depots |-> << [id |-> Depot1, info |-> [DecryptionKey |-> <<"A">>]],
                            [id |-> Depot10, info |-> [DecryptionKey |-> <<"B">>]] >>]]

OneDepot ==
    [size |-> 7, utf8 |-> TRUE, syntax |-> TRUE,
     doc |-> [depots |-> << [id |-> Depot10, info |-> [DecryptionKey |-> <<"C">>]] >>]]

KeyBodies ==
    {EmptyBytes, NotUtf8, Malformed, NoDepots, NoDepotEntries, MissingKey,
     TwoDepots, OneDepot}

\* the bytes of a manifest as repository r stores it
Blob(r) == [size |-> 8, from |-> r]

\* bodies a mirror may send for path p of repository r
Bodies(r, p) == IF p \in vdf_paths THEN KeyBodies ELSE {EmptyBytes, Blob(r)}

\* how one mirror request may end
MirrorOutcomes(r, p) ==
    { [kind |-> "ok", body |-> b] : b \in Bodies(r, p) }
        \cup { [kind |-> k] :
                 k \in {"status", "ClientError", "ReadError", "TimeoutError",
                        "KeyboardInterrupt"} }

\* how the branch request may end
BranchOutcomes ==
    {"commit", "no_commit", "ClientError", "ContentTypeError", "KeyboardInterrupt"}

\* how the tree request may end
TreeOutcomes ==
    { [kind |-> "tree", tree |-> t] : t \in Trees }
        \cup { [kind |-> k] :
                 k \in {"no_tree", "ClientError", "ContentTypeError",
                        "KeyboardInterrupt"} }

\* file names a destination directory may hold when the script is rendered:
\* manifests of depot 1 (one with an underscore in its manifest id) and of
\* depot 10, a manifest name without an underscore, a name with the prefix of
\* depot 1 and another extension, and the script of an earlier run
Manifest1b == Depot1 \o <<"_", "6", "_", "2">> \o DotManifest

NoUnderscore == Depot10 \o DotManifest

OtherExtension == Depot1 \o <<"_", "5", ".", "l", "u", "a">>

LuaName == appid \o <<".", "l", "u", "a">>

ListedNames ==
    {Manifest1, Manifest10, Manifest1b, NoUnderscore, OtherExtension, LuaName}

\* the directories parse_vdf_to_lua may list: no name twice
Listings ==
    { [i \in DOMAIN t |-> [name |-> t[i], data |-> Blob(1)]] :
        t \in { u \in UNION { [1..n -> ListedNames] : n \in 0..MaxListLen } :
                  \A i, j \in DOMAIN u : i # j => u[i] # u[j] } }

\* the lists download_and_process may return: the depots of one key file
DepotInfos ==
    { <<>>,
      << <<Depot1, <<"A">>>> >>,
      << <<Depot10, <<"B">>>> >>,
      << <<Depot1, <<"A">>>>, <<Depot10, <<"B">>>> >>,
      << <<Depot10, <<"B">>>>, <<Depot1, <<"A">>>> >> }

\* the characters of a raw identifier: digits, the hyphen, a blank, a letter
RawChars == {"1", "2", "-", " ", "a"}

\* the raw identifiers download_and_process may be called with
RawIds == UNION { [1..n -> RawChars] : n \in 0..MaxIdLen }

-----------------------------------------------------------------------------
(* The destination directory *)

FileNames(dir) == { dir[i].name : i \in DOMAIN dir }

\* os.path.exists(save_path)
Exists(dir, name) == name \in FileNames(dir)

\* open(save_path, 'wb') and write: a new file is added to the listing, an
\* existing one is truncated and rewritten in place
WriteFile(dir, name, data) ==
    IF Exists(dir, name)
    THEN [i \in DOMAIN dir |->
            IF dir[i].name = name THEN [name |-> name, data |-> data] ELSE dir[i]]
    ELSE Append(dir, [name |-> name, data |-> data])

\* os.listdir(save_dir)
ListDir(dir) == [i \in DOMAIN dir |-> dir[i].name]

-----------------------------------------------------------------------------
(* Start of a run *)

\* nothing has been requested, collected or written yet
Fresh ==
    /\ run = 1
    /\ repo = 1
    /\ r2_tree = <<>>
    /\ item = 0
    /\ path = <<>>
    /\ collected_depots = <<>>
    /\ retry = 0
    /\ url = 0
    /\ contacted = <<>>
    /\ reads = 0
    /\ only_status = TRUE
    /\ sent = None
    /\ content = None
    /\ asked = {}
    /\ gave_up = {}
    /\ interrupted = FALSE
    /\ queried = {}
    /\ yielded = {}
    /\ fallen = 0
    /\ lua_written = FALSE
    /\ lua_file = None
    /\ error = NoError
    /\ prev = None

\* main calls download_and_process with the identifier the user entered; the
\* destination directory is new
Init ==
    /\ pc = "normalize"
    /\ raw_id = appid
    /\ app_id = None
    /\ save_dir = <<>>
    /\ result = <<>>
    /\ Fresh

-----------------------------------------------------------------------------
(* Leaving download_and_process: the locals of the frames are gone *)

NoLocals ==
    /\ r2_tree' = <<>>
    /\ item' = 0
    /\ path' = <<>>
    /\ collected_depots' = <<>>
    /\ retry' = 0
    /\ url' = 0
    /\ contacted' = <<>>
    /\ reads' = 0
    /\ only_status' = TRUE
    /\ sent' = None
    /\ content' = None
    /\ asked' = {}
    /\ gave_up' = {}

\* an exception of type t raised at place w leaves download_and_process and
\* reaches asyncio.run in main
Raise(t, w) ==
    /\ pc' = IF t = "KeyboardInterrupt" THEN "cancelled" ELSE "raised"
    /\ error' = [type |-> t, at |-> w]
    /\ NoLocals

-----------------------------------------------------------------------------
(* get(sha, path, repo): lines 77-100 *)

\* bytes and None in a condition: "if content:"
Truthy(c) == c # None /\ c # EmptyBytes

\* the outcomes of a mirror request after which the for loop goes on: a status
\* other than 200 (line 93), or aiohttp.ClientError raised by the request or
\* by r.read() (line 95)
Skipped(kind) == kind \in {"status", "ClientError", "ReadError"}

\* the outcomes in which line 92, r.read(), is executed
ReadsBody(kind) == kind \in {"ok", "ReadError"}

\* AfterAnswer without the return of line 92: the loop goes on after a 200
AfterAnswerNoReturn(kind, r, u) ==
    IF kind = "ok" \/ Skipped(kind)
    THEN IF u < NMirrors THEN [to |-> "next", retry |-> r, url |-> u + 1]
         ELSE IF r - 1 # 0 THEN [to |-> "next", retry |-> r - 1, url |-> 1]
         ELSE [to |-> "fail", retry |-> r - 1, url |-> u]
    ELSE [to |-> "raise", retry |-> r, url |-> u]

\* AfterAnswer with line 97 inside the for loop: every failure costs a retry
AfterAnswerEachFailure(kind, r, u) ==
    IF kind = "ok" THEN [to |-> "return", retry |-> r, url |-> u]
    ELSE IF Skipped(kind)
    THEN IF r - 1 = 0 THEN [to |-> "fail", retry |-> r - 1, url |-> u]
         ELSE [to |-> "next", retry |-> r - 1, url |-> (u % NMirrors) + 1]
    ELSE [to |-> "raise", retry |-> r, url |-> u]

\* AfterAnswer with "except BaseException" at line 95: an interrupt is one
\* more failed mirror
AfterAnswerCatchAll(kind, r, u) ==
    IF kind = "ok" THEN [to |-> "return", retry |-> r, url |-> u]
    ELSE IF Skipped(kind) \/ kind = "KeyboardInterrupt"
    THEN IF u < NMirrors THEN [to |-> "next", retry |-> r, url |-> u + 1]
         ELSE IF r - 1 # 0 THEN [to |-> "next", retry |-> r - 1, url |-> 1]
         ELSE [to |-> "fail", retry |-> r - 1, url |-> u]
    ELSE [to |-> "raise", retry |-> r, url |-> u]

\* AfterAnswer without line 97: a pass that failed costs nothing
AfterAnswerNoDecrement(kind, r, u) ==
    IF kind = "ok" THEN [to |-> "return", retry |-> r, url |-> u]
    ELSE IF Skipped(kind)
    THEN [to |-> "next", retry |-> r, url |-> (u % NMirrors) + 1]
    ELSE [to |-> "raise", retry |-> r, url |-> u]

\* where get is after the answer of the mirror at position u, with r passes
\* left: "return" the body (line 92), "next" mirror (line 88, after line 97
\* when the list is exhausted), "fail" (line 100), or "raise": the exception
\* is none that line 95 catches and leaves get
AfterAnswer(kind, r, u) ==
    IF kind = "ok" THEN [to |-> "return", retry |-> r, url |-> u]
    ELSE IF Skipped(kind)
    THEN IF u < NMirrors THEN [to |-> "next", retry |-> r, url |-> u + 1]
         ELSE IF r - 1 # 0 THEN [to |-> "next", retry |-> r - 1, url |-> 1]
         ELSE [to |-> "fail", retry |-> r - 1, url |-> u]
    ELSE [to |-> "raise", retry |-> r, url |-> u]

\* the call of get in get_manifest: retry = 3, first url
CallGet(p) ==
    /\ pc' = "get"
    /\ path' = p
    /\ retry' = RetryBudget
    /\ url' = 1
    /\ contacted' = <<>>
    /\ reads' = 0
    /\ only_status' = TRUE
    /\ sent' = None
    /\ content' = None
    /\ asked' = asked \cup {p}
    /\ gave_up' = gave_up

\* one session.get(url) of the loop, with what follows it up to the next
\* request or to the end of get.  An exception that leaves get passes lines
\* 125-129 of get_manifest (raised again) and leaves download_and_process.
GetRequest ==
    /\ pc = "get"
    /\ queried' = queried \cup {repo}
    /\ \E o \in MirrorOutcomes(repo, path) :
        /\ interrupted' = (interrupted \/ o.kind = "KeyboardInterrupt")
        /\ LET a == AfterAnswer(o.kind, retry, url) IN
           IF a.to = "raise"
           THEN Raise(o.kind, "get")
           ELSE /\ pc' = IF a.to = "next" THEN "get" ELSE "got"
                /\ content' = IF a.to = "fail" THEN None
                              ELSE IF o.kind = "ok" THEN o.body
                              ELSE content
                /\ contacted' = Append(contacted, url)
                /\ reads' = IF a.to = "next" /\ a.url = 1 THEN 0
                            ELSE IF ReadsBody(o.kind) THEN reads + 1
                            ELSE reads
                /\ only_status' = IF a.to = "next" /\ a.url = 1 THEN TRUE
                                  ELSE only_status /\ o.kind \in {"ok", "status"}
                /\ sent' = IF o.kind = "ok" THEN [mirror |-> url, body |-> o.body]
                           ELSE sent
                /\ retry' = a.retry
                /\ url' = a.url
                /\ gave_up' = IF a.to = "fail" THEN gave_up \cup {path} ELSE gave_up
                /\ UNCHANGED <<r2_tree, item, path, collected_depots, asked, error>>
    /\ UNCHANGED <<raw_id, app_id, run, repo, save_dir, yielded, fallen, result,
                   lua_written, lua_file, prev>>

-----------------------------------------------------------------------------
(* get_manifest(sha, path, save_dir, repo): lines 103-130 *)

\* lines 120-124: the depots of a key file, or the exception raised
ParseKey(c) ==
    IF ~Truthy(c) THEN [exc |-> "none", depots |-> <<>>]
    ELSE IF ~c.utf8 THEN [exc |-> "UnicodeDecodeError", depots |-> <<>>]
    ELSE IF ~c.syntax THEN [exc |-> "SyntaxError", depots |-> <<>>]
    ELSE IF "depots" \notin DOMAIN c.doc THEN [exc |-> "KeyError", depots |-> <<>>]
    ELSE IF \E i \in DOMAIN c.doc.depots :
                "DecryptionKey" \notin DOMAIN c.doc.depots[i].info
         THEN [exc |-> "KeyError", depots |-> <<>>]
    ELSE [exc |-> "none",
          depots |-> [i \in DOMAIN c.doc.depots |->
                        <<c.doc.depots[i].id, c.doc.depots[i].info.DecryptionKey>>]]

\* SkipManifest without the test of line 108: every manifest is fetched
SkipManifestNever(dir, p) == FALSE

\* lines 108-110: a manifest whose file exists is not fetched
SkipManifest(dir, p) == Exists(dir, p)

\* SaveManifest without the test of line 112: the file is opened for writing
\* whatever get returned
SaveManifestAlways(dir, p, c) == WriteFile(dir, p, c)

\* lines 112-116: what the directory holds after get returned c for manifest p
SaveManifest(dir, p, c) == IF Truthy(c) THEN WriteFile(dir, p, c) ELSE dir

\* extend that puts the new list in the place of the collected one
ExtendReplaces(depots, res) == res

\* lines 160 and 168: collected_depots.extend(...)
Extend(depots, res) == depots \o res

\* line 159: "if vdf_result:" ends the search for a key file
KeyFound(vdf_result) == vdf_result # <<>>

\* VdfNext without the break of line 162: the loop goes on to the next entry
VdfNextNoBreak(vdf_result, i) == [pc |-> "vdf_loop", item |-> i + 1]

\* lines 159-162: after a key file that gave depots the loop is left and the
\* manifest loop starts; otherwise the loop goes on with the next entry
VdfNext(vdf_result, i) ==
    IF KeyFound(vdf_result) THEN [pc |-> "manifest_loop", item |-> 1]
    ELSE [pc |-> "vdf_loop", item |-> i + 1]

\* Found without the test of line 170: the first repository with a tree
\* ends the search
FoundAlways(depots) == TRUE

\* Found without the return of line 173: the search goes on after depots
\* were collected
FoundNever(depots) == FALSE

\* Found with an all-or-nothing rule: depots count only when no manifest of
\* the tree was given up
FoundIfNoneGivenUp(depots) == depots # <<>> /\ gave_up = {}

\* line 170: "if collected_depots:" returns from this repository
Found(depots) == depots # <<>>

\* lines 174-176: the next repository, or the end of the search
NextRepo ==
    /\ NoLocals
    /\ IF repo < NRepos
       THEN pc' = "branch" /\ repo' = repo + 1 /\ result' = result
       ELSE pc' = "returned" /\ repo' = repo /\ result' = <<>>

\* get returned: its locals are gone
ClearGet ==
    /\ path' = <<>>
    /\ retry' = 0
    /\ url' = 0
    /\ contacted' = <<>>
    /\ reads' = 0
    /\ only_status' = TRUE
    /\ sent' = None
    /\ content' = None

\* get has returned: the rest of get_manifest and of the loop body that
\* called it (lines 112-116 and 168, or 120-124 and 159-162)
GetManifestResume ==
    /\ pc = "got"
    /\ IF EndsWith(path, DotManifest)
       THEN /\ save_dir' = SaveManifest(save_dir, path, content)
            /\ pc' = "manifest_loop"
            /\ item' = item + 1
            /\ ClearGet
            /\ collected_depots' = Extend(collected_depots, <<>>)
            /\ UNCHANGED <<r2_tree, asked, gave_up, error>>
       ELSE LET r == ParseKey(content) IN
            /\ save_dir' = save_dir
            /\ IF r.exc # "none"
               THEN Raise(r.exc, "parse")
               ELSE /\ ClearGet
                    /\ UNCHANGED <<r2_tree, asked, gave_up, error>>
                    /\ collected_depots' =
                            IF KeyFound(r.depots) THEN Extend(collected_depots, r.depots)
                            ELSE collected_depots
                    /\ pc' = VdfNext(r.depots, item).pc
                    /\ item' = VdfNext(r.depots, item).item
    /\ UNCHANGED <<raw_id, app_id, run, repo, interrupted, queried, yielded,
                   fallen, result, lua_written, lua_file, prev>>

-----------------------------------------------------------------------------
(* download_and_process(app_id, game_name): lines 133-176 *)

\* lines 134-135: the identifier is normalised; app_id_list[0] of an empty
\* list raises IndexError, which no handler catches
Normalize ==
    /\ pc = "normalize"
    /\ LET l == app_id_list(raw_id) IN
       IF l = <<>>
       THEN /\ Raise("IndexError", "normalize")
            /\ app_id' = None
       ELSE /\ pc' = "branch"
            /\ app_id' = l[1]
            /\ UNCHANGED <<r2_tree, item, path, collected_depots, retry, url,
                           contacted, reads, only_status, sent, content, asked,
                           gave_up, error>>
    /\ UNCHANGED <<raw_id, run, repo, interrupted, save_dir, queried, yielded,
                   fallen, result, lua_written, lua_file, prev>>

\* lines 142-146: the branch request of the current repository; no handler
\* surrounds lines 143-145
BranchRequest ==
    /\ pc = "branch"
    /\ queried' = queried \cup {repo}
    /\ fallen' = 0
    /\ \E o \in BranchOutcomes :
        /\ interrupted' = (interrupted \/ o = "KeyboardInterrupt")
        /\ CASE o = "commit" ->
                  /\ pc' = "tree"
                  /\ UNCHANGED <<repo, r2_tree, item, path, collected_depots,
                                 retry, url, contacted, reads, only_status, sent,
                                 content, asked, gave_up, result, error>>
             [] o = "no_commit" ->
                  NextRepo /\ UNCHANGED error
             [] OTHER ->
                  Raise(o, "branch") /\ UNCHANGED <<repo, result>>
    /\ UNCHANGED <<raw_id, app_id, run, save_dir, yielded, lua_written, lua_file,
                   prev>>

\* lines 150-154: the tree request
TreeRequest ==
    /\ pc = "tree"
    /\ queried' = queried \cup {repo}
    /\ \E o \in TreeOutcomes :
        /\ interrupted' = (interrupted \/ o.kind = "KeyboardInterrupt")
        /\ CASE o.kind = "tree" ->
                  /\ pc' = "vdf_loop"
                  /\ r2_tree' = o.tree
                  /\ item' = 1
                  /\ collected_depots' = <<>>
                  /\ UNCHANGED <<repo, path, retry, url, contacted, reads,
                                 only_status, sent, content, asked, gave_up,
                                 result, error>>
             [] o.kind = "no_tree" ->
                  NextRepo /\ UNCHANGED error
             [] OTHER ->
                  Raise(o.kind, "tree") /\ UNCHANGED <<repo, result>>
    /\ UNCHANGED <<raw_id, app_id, run, save_dir, yielded, fallen, lua_written,
                   lua_file, prev>>

\* lines 156-162: one iteration of the key-file loop, up to the call of get
VdfLoop ==
    /\ pc = "vdf_loop"
    /\ IF item > Len(r2_tree)
       THEN /\ pc' = "manifest_loop"
            /\ item' = 1
            /\ UNCHANGED <<path, retry, url, contacted, reads, only_status, sent,
                           content, asked, gave_up>>
       ELSE IF r2_tree[item] \in vdf_paths
       THEN CallGet(r2_tree[item]) /\ item' = item
       ELSE /\ pc' = "vdf_loop"
            /\ item' = item + 1
            /\ UNCHANGED <<path, retry, url, contacted, reads, only_status, sent,
                           content, asked, gave_up>>
    /\ UNCHANGED <<raw_id, app_id, run, repo, r2_tree, collected_depots,
                   interrupted, save_dir, queried, yielded, fallen, result,
                   lua_written, lua_file, error, prev>>

\* lines 165-173: one iteration of the manifest loop, up to the call of get;
\* after the last one, the test of collected_depots
ManifestLoop ==
    /\ pc = "manifest_loop"
    /\ IF item > Len(r2_tree)
       THEN /\ yielded' = IF collected_depots # <<>> THEN yielded \cup {repo}
                          ELSE yielded
            /\ fallen' = IF collected_depots # <<>> THEN 0 ELSE repo
            /\ IF Found(collected_depots)
               THEN /\ pc' = "returned"
                    /\ result' = collected_depots
                    /\ UNCHANGED <<repo, r2_tree, item, path, collected_depots,
                                   retry, url, contacted, reads, only_status,
                                   sent, content, asked, gave_up>>
               ELSE NextRepo
       ELSE IF EndsWith(r2_tree[item], DotManifest)
                 /\ ~SkipManifest(save_dir, r2_tree[item])
       THEN /\ CallGet(r2_tree[item])
            /\ UNCHANGED <<repo, r2_tree, item, collected_depots, result, yielded,
                           fallen>>
       ELSE /\ pc' = "manifest_loop"
            /\ item' = item + 1
            /\ UNCHANGED <<repo, r2_tree, collected_depots, result, yielded,
                           fallen, path, retry, url, contacted, reads,
                           only_status, sent, content, asked, gave_up>>
    /\ UNCHANGED <<raw_id, app_id, run, interrupted, save_dir, queried,
                   lua_written, lua_file, error, prev>>

-----------------------------------------------------------------------------
(* parse_vdf_to_lua(depot_info, appid, save_dir): lines 179-190 *)

\* f'addappid({appid})'
AppLine(id) == <<"a", "d", "d", "a", "p", "p", "i", "d", "(">> \o id \o <<")">>

\* f'addappid({depot_id},1,"{decryption_key}")'
DepotLine(d, k) ==
    <<"a", "d", "d", "a", "p", "p", "i", "d", "(">> \o d
        \o <<",", "1", ",", "\"">> \o k \o <<"\"", ")">>

\* f'setManifestid({depot_id},"{manifest_id}",0)'
ManifestLine(d, m) ==
    <<"s", "e", "t", "M", "a", "n", "i", "f", "e", "s", "t", "i", "d", "(">> \o d
        \o <<",", "\"">> \o m \o <<"\"", ",", "0", ")">>

\* manifest_files with startswith(depot_id) instead of startswith(depot_id + "_")
manifest_filesAnyPrefix(dir, d) ==
    SelectSeq(ListDir(dir),
              LAMBDA f : StartsWith(f, d) /\ EndsWith(f, DotManifest))

\* line 186: the files of the directory that belong to depot d
manifest_files(dir, d) ==
    SelectSeq(ListDir(dir),
              LAMBDA f : StartsWith(f, d \o <<"_">>) /\ EndsWith(f, DotManifest))

\* line 188
manifest_id(f, d) == Slice(f, Len(d) + 1, Len(DotManifest))

\* lines 186-189: the (depot id, manifest id) pairs of depot d, one per file
Bindings(dir, d) ==
    LET mf == manifest_files(dir, d) IN
    [i \in 1..Len(mf) |-> <<d, manifest_id(mf[i], d)>>]

\* lines 184-189 for one depot
DepotLines(dir, d, k) ==
    LET mf == manifest_files(dir, d) IN
    <<DepotLine(d, k)>> \o [i \in 1..Len(mf) |-> ManifestLine(d, manifest_id(mf[i], d))]

RECURSIVE AllDepotLines(_, _)
AllDepotLines(dir, depot_info) ==
    IF depot_info = <<>> THEN <<>>
    ELSE DepotLines(dir, Head(depot_info)[1], Head(depot_info)[2])
            \o AllDepotLines(dir, Tail(depot_info))

lua_lines(depot_info, id, dir) == <<AppLine(id)>> \o AllDepotLines(dir, depot_info)

\* join that ends every line, the last one too, with a newline
RECURSIVE JoinTrailingNewline(_)
JoinTrailingNewline(lines) ==
    IF lines = <<>> THEN <<>>
    ELSE lines[1] \o <<"\n">> \o JoinTrailingNewline(Tail(lines))

\* "\n".join(lines)
RECURSIVE Join(_)
Join(lines) ==
    IF lines = <<>> THEN <<>>
    ELSE IF Len(lines) = 1 THEN lines[1]
    ELSE lines[1] \o <<"\n">> \o Join(Tail(lines))

parse_vdf_to_lua(depot_info, id, dir) == Join(lua_lines(depot_info, id, dir))

-----------------------------------------------------------------------------
(* main(): lines 210-218, and a second run of the program *)

\* WritesScript without the test of line 213
WritesScriptAlways(depots) == TRUE

\* line 213: "if collected_depots:"
WritesScript(depots) == depots # <<>>

Main ==
    /\ pc = "returned"
    /\ pc' = "exit"
    /\ IF WritesScript(result)
       THEN /\ lua_file' = parse_vdf_to_lua(result, appid, save_dir)
            /\ lua_written' = TRUE
       ELSE UNCHANGED <<lua_file, lua_written>>
    /\ UNCHANGED <<raw_id, app_id, run, repo, r2_tree, item, path,
                   collected_depots, retry, url, contacted, reads, only_status,
                   sent, content, asked, gave_up, interrupted, save_dir, queried,
                   yielded, fallen, result, error, prev>>

\* the program is started again with the same identifier and the network
\* answers as before up to line 165: the manifest loop runs again over the same
\* tree, against the same save_dir and with the same collected_depots
Rerun ==
    /\ pc = "exit"
    /\ run < MaxRuns
    /\ result # <<>>
    /\ run' = run + 1
    /\ prev' = [lua |-> lua_file, names |-> FileNames(save_dir)]
    /\ pc' = "manifest_loop"
    /\ item' = 1
    /\ collected_depots' = result
    /\ result' = <<>>
    /\ lua_written' = FALSE
    /\ asked' = {}
    /\ gave_up' = {}
    /\ UNCHANGED <<raw_id, app_id, repo, r2_tree, path, retry, url, contacted,
                   reads, only_status, sent, content, interrupted, save_dir,
                   queried, yielded, fallen, lua_file, error>>

-----------------------------------------------------------------------------

Next ==
    \/ Normalize
    \/ BranchRequest
    \/ TreeRequest
    \/ VdfLoop
    \/ ManifestLoop
    \/ GetRequest
    \/ GetManifestResume
    \/ Main
    \/ Rerun

Spec == Init /\ [][Next]_vars

\* one run of the program.  Every step is a request that is answered, with a
\* response or an error, or code that runs to the next request: as long as
\* answers come, the run goes on
NextRun ==
    \/ Normalize
    \/ BranchRequest
    \/ TreeRequest
    \/ VdfLoop
    \/ ManifestLoop
    \/ GetRequest
    \/ GetManifestResume
    \/ Main

\* what every step of a run changes: the place in the code, the repository,
\* the entry of the tree or the number of requests of the call of get
progress == <<pc, repo, item, Len(contacted)>>

SpecRun == Init /\ [][NextRun]_vars /\ WF_progress(NextRun)

\* download_and_process called with any raw identifier, up to line 135
InitNormalize ==
    /\ pc = "normalize"
    /\ raw_id \in RawIds
    /\ app_id = None
    /\ save_dir = <<>>
    /\ result = <<>>
    /\ Fresh

SpecNormalize == InitNormalize /\ [][Normalize]_vars

\* download_and_process has returned any list of depots and the destination
\* directory holds any files; main goes on from line 213
InitRender ==
    /\ pc = "returned"
    /\ raw_id = appid
    /\ app_id = appid
    /\ save_dir \in Listings
    /\ result \in DepotInfos
    /\ Fresh

SpecRender == InitRender /\ [][Main]_vars

-----------------------------------------------------------------------------
(* Properties of get *)

\* the mirrors of url_list, in order, RetryBudget times over
AllPasses == [i \in 1..(RetryBudget * NMirrors) |-> ((i - 1) % NMirrors) + 1]

\* C1: when get returns after mirror k answered 200, it returns the body that
\* mirror sent, the pass it succeeded in contacted exactly the mirrors 1..k in
\* order, k is the last mirror contacted by the call, and if the earlier
\* mirrors of that pass answered with a status other than 200 the body was
\* read exactly once
C1_FirstSuccessWins ==
    (pc = "got" /\ sent # None) =>
        LET k == sent.mirror
            n == Len(contacted)
        IN  /\ content = sent.body
            /\ n >= k
            /\ (n - k) % NMirrors = 0
            /\ \A i \in 1..k : contacted[n - k + i] = i
            /\ only_status => reads = 1

\* C1 witness: the third mirror answers 200 in the second pass, after two
\* mirrors of that pass answered with another status
C1_Witness ==
    /\ pc = "got"
    /\ sent # None
    /\ sent.mirror = 3
    /\ Len(contacted) = NMirrors + 3
    /\ only_status
    /\ content = sent.body

\* C2: while get runs, the retry budget has been decremented once per full
\* pass over the mirrors and the mirrors are contacted in list order; when no
\* mirror ever answered 200, get returns None after exactly RetryBudget full
\* passes (each mirror contacted RetryBudget times) instead of raising
C2_AllFailThreePasses ==
    /\ pc = "get" =>
        /\ retry = RetryBudget - (Len(contacted) \div NMirrors)
        /\ url = (Len(contacted) % NMirrors) + 1
        /\ contacted = SubSeq(AllPasses, 1, Len(contacted))
    /\ (pc = "got" /\ sent = None) =>
        /\ content = None
        /\ retry = 0
        /\ contacted = AllPasses
    /\ (pc = "got" /\ content = None) => sent = None

\* C2 witness: get gave up after 15 requests, some of which failed with a
\* transport error in the last pass
C2_Witness ==
    /\ pc = "got"
    /\ content = None
    /\ Len(contacted) = 15
    /\ ~only_status
    /\ reads > 0

-----------------------------------------------------------------------------
(* Properties of the search over the repositories *)

\* C3: a repository whose branch and tree were found and whose two loops
\* ended without a depot is followed by the branch request of the next
\* repository of repos; the search reports failure (returns an empty list)
\* only when every repository was asked
C3_EmptySourceFallsThrough ==
    /\ (fallen # 0 /\ fallen < NRepos) => (pc = "branch" /\ repo = fallen + 1)
    /\ (fallen # 0 /\ fallen = NRepos) => (pc \in {"returned", "exit"} /\ result = <<>>)
    /\ (pc \in {"returned", "exit"} /\ result = <<>>) => queried = 1..NRepos

\* C3 witness: the third repository had a tree and no depot came of it, and
\* the fourth is the next to be asked
C3_Witness == fallen = 3 /\ pc = "branch" /\ repo = 4 /\ queried = 1..3

\* C4: a key file that is malformed, has no depots section or has a depot
\* without DecryptionKey does not end the run with an exception
C4_ParseFailureNotFatal == ~(pc = "raised" /\ error.at = "parse")

\* C5: a failed branch or tree request does not end the run with an exception
C5_MetadataFailureHandled == ~(pc = "raised" /\ error.at \in {"branch", "tree"})

\* C6: once a request was interrupted by the operator the run is over: the
\* interrupt left download_and_process, no request follows and main wrote no
\* script in this run
C6_CancellationPropagates ==
    interrupted =>
        /\ pc = "cancelled"
        /\ error.type = "KeyboardInterrupt"
        /\ ~lua_written
        /\ ~ENABLED Next

\* C6 witness: the interrupt came during a mirror request of the second
\* repository, after a manifest had been saved
C6_Witness ==
    /\ interrupted
    /\ pc = "cancelled"
    /\ error.at = "get"
    /\ repo = 2
    /\ save_dir # <<>>

-----------------------------------------------------------------------------
(* Properties of the manifest loop *)

IsManifest(p) == EndsWith(p, DotManifest)

\* the manifest entries of the current tree
TreeManifests == { r2_tree[i] : i \in { j \in DOMAIN r2_tree : IsManifest(r2_tree[j]) } }

\* C7 as claimed: no mirror request is made for a manifest whose file is in
\* save_dir, and the script written by a second run over the same tree, with
\* the same depots, is the script of the first run
C7_RerunSameScript ==
    /\ (pc \in {"get", "got"} /\ IsManifest(path)) => ~Exists(save_dir, path)
    /\ (run > 1 /\ pc = "exit") => lua_file = prev.lua

\* C7 amended: no mirror request is made for a manifest whose file is in
\* save_dir, and the script written by a second run over the same tree, with
\* the same depots, is the script of the first run when the second run saved
\* no manifest that the first run had left absent; while the second run is
\* in progress or over (its tree is dropped once an exception leaves it) and
\* every manifest of the tree was left by the first run, it asked no mirror
\* and saved nothing
C7_RerunSameScriptIfNothingNew ==
    /\ (pc \in {"get", "got"} /\ IsManifest(path)) => ~Exists(save_dir, path)
    /\ (run > 1 /\ pc = "exit" /\ FileNames(save_dir) = prev.names) =>
            lua_file = prev.lua
    /\ (run > 1 /\ pc \notin {"raised", "cancelled"}
                 /\ TreeManifests \subseteq prev.names) =>
            (asked = {} /\ FileNames(save_dir) = prev.names)

\* C7 witness: the second run is over, it found the manifest of the tree in
\* save_dir, asked no mirror and wrote the script of the first run again
C7_Witness ==
    /\ run = 2
    /\ pc = "exit"
    /\ lua_written
    /\ TreeManifests # {}
    /\ TreeManifests \subseteq prev.names
    /\ asked = {}
    /\ lua_file = prev.lua

\* C8: a manifest for which get gave up (returned None) is not written; the
\* loop goes on with the next entry of the tree, and when the loop is over
\* every manifest entry of the tree is in save_dir or was handed to get
C8_FailedManifestSkipped ==
    /\ [](/\ \A m \in gave_up : IsManifest(m) => ~Exists(save_dir, m)
          /\ pc = "manifest_loop" =>
                \A i \in 1..(item - 1) :
                    (i <= Len(r2_tree) /\ IsManifest(r2_tree[i])) =>
                        (r2_tree[i] \in asked \/ Exists(save_dir, r2_tree[i])))
    /\ [][(pc = "got" /\ IsManifest(path) /\ content = None) =>
            (/\ pc' = "manifest_loop"
             /\ item' = item + 1
             /\ r2_tree' = r2_tree
             /\ save_dir' = save_dir)]_vars

\* C8 witness: the loop over a tree of two manifests is over; get gave up on
\* the first one, the second one was fetched and saved
C8_Witness ==
    /\ pc = "manifest_loop"
    /\ Len(r2_tree) = 2
    /\ item > Len(r2_tree)
    /\ IsManifest(r2_tree[1])
    /\ r2_tree[1] \in gave_up
    /\ ~Exists(save_dir, r2_tree[1])
    /\ r2_tree[2] \in asked
    /\ Exists(save_dir, r2_tree[2])

-----------------------------------------------------------------------------
(* Properties of the result *)

\* C9: the repositories are asked in the order of repos; the repository whose
\* depots are returned is the first one, in that order, whose loops ended
\* with depots, and once a repository has yielded depots none after it is
\* sent a request
C9_FirstSourceWithDepotsWins ==
    /\ queried \in {1..(repo - 1), 1..repo}
    /\ yielded # {} =>
        /\ yielded = {repo}
        /\ queried = 1..repo
        /\ run = 1 => (pc \in {"returned", "exit"} /\ result # <<>>)
    /\ (pc \in {"returned", "exit"} /\ result # <<>>) =>
        (yielded = {repo} /\ queried = 1..repo)

\* C9 witness: the third repository is the one returned, after the first one
\* had a tree with a manifest (saved in save_dir) and no depot
C9_Witness ==
    /\ pc = "returned"
    /\ run = 1
    /\ repo = 3
    /\ result # <<>>
    /\ yielded = {3}
    /\ save_dir # <<>>
    /\ save_dir[1].data = Blob(1)

\* C10: an empty list is returned only after every repository was asked and
\* none yielded depots, without an exception; main writes the script exactly
\* when the returned list is not empty, and a run that ended with an
\* exception wrote none
C10_ScriptIffDepots ==
    /\ (pc \in {"returned", "exit"} /\ result = <<>>) =>
        (queried = 1..NRepos /\ yielded = {} /\ error = NoError)
    /\ pc = "exit" => (lua_written <=> result # <<>>)
    /\ lua_written =>
        (pc = "exit" /\ lua_file = parse_vdf_to_lua(result, appid, save_dir))
    /\ (run = 1 /\ ~lua_written) => lua_file = None

\* C10 witness: every repository was asked, a manifest was saved but no key
\* was found; main has finished and there is no script
C10_Witness ==
    /\ pc = "exit"
    /\ result = <<>>
    /\ queried = 1..NRepos
    /\ save_dir # <<>>
    /\ ~lua_written
    /\ lua_file = None

-----------------------------------------------------------------------------
(* Properties of the normalisation of the identifier *)

\* the raw identifier without the whitespace around it
Trimmed(raw) ==
    LET inner == { i \in DOMAIN raw : raw[i] \notin Whitespace } IN
    IF inner = {} THEN <<>>
    ELSE SubSeq(raw, CHOOSE a \in inner : \A i \in inner : a <= i,
                     CHOOSE b \in inner : \A i \in inner : b >= i)

\* t[i..j] is a segment of t made of decimal digits only: it is not empty,
\* begins at the start of t or after a hyphen and ends at the end of t or
\* before a hyphen
DecimalSegment(t, i, j) ==
    /\ i <= j
    /\ i = 1 \/ t[i - 1] = "-"
    /\ j = Len(t) \/ t[j + 1] = "-"
    /\ \A k \in i..j : t[k] \in DecimalChars

DecimalSegments(t) ==
    { ij \in (DOMAIN t) \X (DOMAIN t) : DecimalSegment(t, ij[1], ij[2]) }

\* C11: the normalised identifier is the first of the hyphen-separated
\* segments of the trimmed raw identifier that consists only of decimal
\* digits; a raw identifier without such a segment is not used: IndexError
\* leaves download_and_process before the first request
C11_FirstDecimalSegment ==
    LET t == Trimmed(raw_id)
        segs == DecimalSegments(t)
    IN  /\ pc = "branch" =>
            \E ij \in segs :
                /\ \A o \in segs : ij[1] <= o[1]
                /\ app_id = SubSeq(t, ij[1], ij[2])
        /\ (pc # "normalize" /\ segs = {}) =>
            /\ pc = "raised"
            /\ error = [type |-> "IndexError", at |-> "normalize"]
            /\ app_id = None
            /\ queried = {}
        /\ pc = "raised" => segs = {}

\* C11 witness: "-1-2" was normalised to "1", the first segment being empty
C11_Witness ==
    /\ raw_id = <<"-", "1", "-", "2">>
    /\ pc = "branch"
    /\ app_id = <<"1">>

-----------------------------------------------------------------------------
(* Properties of the rendered script *)

\* the k-th smallest element of a set of numbers
Nth(S, k) == CHOOSE x \in S : Cardinality({ y \in S : y < x }) = k - 1

\* f is d, an underscore, some text and the manifest extension
HasForm(f, d) ==
    /\ Len(f) >= Len(d) + 1 + Len(DotManifest)
    /\ f = d \o <<"_">> \o SubSeq(f, Len(d) + 2, Len(f) - Len(DotManifest))
              \o DotManifest

\* the positions in the listing of the files of depot d
FilesOf(dir, d) == { i \in DOMAIN dir : HasForm(dir[i].name, d) }

\* C12: when the script is rendered, the bindings of every depot d of the
\* result are one (d, token) per listed file named d_token.manifest, in
\* listing order, the token being what stands between the underscore that
\* follows d and the extension; no other file gives d a binding, in
\* particular no file of a depot whose id begins with d or begins d
C12_BindingsOfDepot ==
    (pc = "exit" /\ lua_written) =>
        \A r \in DOMAIN result :
            LET d == result[r][1]
                b == Bindings(save_dir, d)
                pos == FilesOf(save_dir, d)
            IN  /\ Len(b) = Cardinality(pos)
                /\ \A k \in DOMAIN b :
                      /\ b[k][1] = d
                      /\ save_dir[Nth(pos, k)].name
                            = d \o <<"_">> \o b[k][2] \o DotManifest
                /\ \A e \in {Depot1, Depot10} \ {d} :
                      \A i \in FilesOf(save_dir, e) : i \notin pos

\* C12 witness: depot 1 has two bindings, 6_2 before 5 as the directory lists
\* them, and the manifest of depot 10 gave it none
C12_Witness ==
    /\ pc = "exit"
    /\ lua_written
    /\ ListDir(save_dir) = <<Manifest1b, Manifest10, Manifest1>>
    /\ \E r \in DOMAIN result : result[r][1] = Depot1
    /\ Bindings(save_dir, Depot1)
          = << <<Depot1, <<"6", "_", "2">>>>, <<Depot1, <<"5">>>> >>

\* the lines of a text: what stands between its newlines
TextLines(text) ==
    LET nl == { i \in DOMAIN text : text[i] = "\n" }
        n == Cardinality(nl)
        from(k) == IF k = 1 THEN 1 ELSE Nth(nl, k - 1) + 1
        to(k) == IF k = n + 1 THEN Len(text) ELSE Nth(nl, k) - 1
    IN  [k \in 1..(n + 1) |-> SubSeq(text, from(k), to(k))]

\* the number of bindings of the first n depots of recs
RECURSIVE BindingsBefore(_, _, _)
BindingsBefore(dir, recs, n) ==
    IF n = 0 THEN 0
    ELSE BindingsBefore(dir, recs, n - 1) + Len(Bindings(dir, recs[n][1]))

\* C13: the script main writes is, line by line: addappid(<identifier>);
\* then for each depot of the result, in order, its addappid line followed
\* by one setManifestid line per binding of the depot, in binding order.  It
\* has 1 + depots + bindings lines and does not end with a newline; the
\* identifier, the depots and the bindings determine every line
C13_ScriptLines ==
    (pc = "exit" /\ lua_written) =>
        LET lines == TextLines(lua_file)
            at(r) == 1 + r + BindingsBefore(save_dir, result, r - 1)
        IN  /\ Len(lines)
                  = 1 + Len(result) + BindingsBefore(save_dir, result, Len(result))
            /\ lines[1] = AppLine(appid)
            /\ \A r \in DOMAIN result :
                  LET b == Bindings(save_dir, result[r][1]) IN
                  /\ lines[at(r)] = DepotLine(result[r][1], result[r][2])
                  /\ \A k \in DOMAIN b :
                        lines[at(r) + k] = ManifestLine(b[k][1], b[k][2])
            /\ lua_file[Len(lua_file)] # "\n"

\* C13 witness: two depots, the first one with a binding after the second
\* one's in the listing: five lines, depot 10 and its binding before depot 1
C13_Witness ==
    /\ pc = "exit"
    /\ lua_written
    /\ result = << <<Depot10, <<"B">>>>, <<Depot1, <<"A">>>> >>
    /\ ListDir(save_dir) = <<Manifest1, LuaName, Manifest10>>
    /\ TextLines(lua_file)
          = << AppLine(appid),
               DepotLine(Depot10, <<"B">>), ManifestLine(Depot10, <<"6">>),
               DepotLine(Depot1, <<"A">>), ManifestLine(Depot1, <<"5">>) >>

-----------------------------------------------------------------------------
(* Properties of the key-file loop *)

\* no depot id twice in a list of depots
UniqueDepots(depots) ==
    \A i, j \in DOMAIN depots : i # j => depots[i][1] # depots[j][1]

\* C14: the collected depots, and the list returned, hold no depot id twice;
\* the collection is filled in one step, from one key file, and never added
\* to afterwards; once it is not empty no key file is being searched or
\* fetched, and no key file that follows the one that filled it was asked for
C14_OneKeyFile ==
    /\ [](/\ UniqueDepots(collected_depots)
          /\ UniqueDepots(result)
          /\ collected_depots # <<>> =>
                /\ pc # "vdf_loop"
                /\ ~(pc \in {"get", "got"} /\ path \in vdf_paths)
                /\ run = 1 =>
                      \E i \in DOMAIN r2_tree :
                          /\ r2_tree[i] \in vdf_paths \cap asked
                          /\ \A j \in DOMAIN r2_tree :
                                (j > i /\ r2_tree[j] \in vdf_paths)
                                    => r2_tree[j] \notin asked)
    /\ [][(collected_depots' # collected_depots /\ collected_depots' # <<>>) =>
            /\ collected_depots = <<>>
            /\ pc = "got"
            /\ path \in vdf_paths
            /\ collected_depots' = ParseKey(content).depots]_vars

\* C14 witness: the tree lists Key.vdf and config.vdf; Key.vdf gave two
\* depots and the manifest loop is over without config.vdf being asked for
C14_Witness ==
    /\ r2_tree = <<Key_vdf, config_vdf>>
    /\ pc = "manifest_loop"
    /\ item > Len(r2_tree)
    /\ Len(collected_depots) = 2
    /\ asked = {Key_vdf}

\* the key-file entries of the current tree
TreeKeys == { r2_tree[i] : i \in { j \in DOMAIN r2_tree : r2_tree[j] \in vdf_paths } }

\* the key files are asked for in the order of the tree, and no manifest is
\* asked for before the key-file loop is over
KeysBeforeManifests ==
    /\ pc = "vdf_loop" =>
          \A i \in DOMAIN r2_tree :
              r2_tree[i] \in asked <=> (i < item /\ r2_tree[i] \in vdf_paths)
    /\ (pc \in {"get", "got"} /\ path \in vdf_paths) =>
          /\ item \in DOMAIN r2_tree
          /\ path = r2_tree[item]
          /\ \A i \in DOMAIN r2_tree :
                r2_tree[i] \in asked <=> (i <= item /\ r2_tree[i] \in vdf_paths)
    /\ (run = 1 /\ (pc = "manifest_loop" \/ (pc \in {"get", "got"} /\ IsManifest(path)))) =>
          (collected_depots # <<>> \/ TreeKeys \subseteq asked)

\* C15 as claimed: key files are tried in tree order, before any manifest;
\* a key file that was fetched in vain or gave no depot is followed by the
\* next entry of the tree, and whatever the key file held, the key-file loop
\* goes on or the manifest loop starts
C15_KeyPhaseThenManifestPhase ==
    /\ []KeysBeforeManifests
    /\ [][(pc = "got" /\ path \in vdf_paths) =>
            /\ pc' \in {"vdf_loop", "manifest_loop"}
            /\ pc' = "vdf_loop" => item' = item + 1
            /\ pc' = "manifest_loop" => (item' = 1 /\ collected_depots' # <<>>)]_vars
    /\ [][pc = "vdf_loop" =>
            \/ pc' = "vdf_loop" /\ item' = item + 1
            \/ pc' = "get" /\ path' = r2_tree[item] /\ path' \in vdf_paths
            \/ pc' = "manifest_loop" /\ item' = 1 /\ item > Len(r2_tree)]_vars

-----------------------------------------------------------------------------
(* Properties of the destination directory *)

\* the content of the file called name in dir
DataOf(dir, name) == dir[CHOOSE i \in DOMAIN dir : dir[i].name = name].data

\* C16 as claimed: when get returns what a mirror sent with status 200 for a
\* manifest, the next step leaves a file of that name in save_dir whose
\* content is the body sent, whatever the body; no step changes a file that
\* is in save_dir; and when the manifest loop is over every manifest for
\* which get did not give up is in save_dir
C16_FetchedManifestSaved ==
    /\ [][(pc = "got" /\ IsManifest(path) /\ sent # None) =>
            /\ pc' = "manifest_loop"
            /\ Exists(save_dir', path)
            /\ DataOf(save_dir', path) = sent.body]_vars
    /\ [][/\ Len(save_dir') >= Len(save_dir)
          /\ \A i \in DOMAIN save_dir : save_dir'[i] = save_dir[i]]_vars
    /\ [](pc = "manifest_loop" /\ item > Len(r2_tree) =>
            \A m \in TreeManifests :
                (m \in asked /\ m \notin gave_up) => Exists(save_dir, m))

-----------------------------------------------------------------------------
(* Properties of the collection of depots *)

\* C17: when the manifest loop is over and depots were collected, they are
\* returned for this repository whatever became of the manifests; and no
\* step of the manifest loop, whether the manifest was saved, skipped or given
\* up, changes the collected depots
C17_PartialSuccessKept ==
    /\ [][(pc = "manifest_loop" /\ item > Len(r2_tree) /\ collected_depots # <<>>) =>
            /\ pc' = "returned"
            /\ result' = collected_depots
            /\ repo' = repo]_vars
    /\ [][(pc = "manifest_loop" \/ (pc = "got" /\ IsManifest(path))) =>
            collected_depots' = collected_depots]_vars
    /\ [][(pc = "get" /\ IsManifest(path) /\ pc' \in {"get", "got"}) =>
            collected_depots' = collected_depots]_vars
    /\ [](pc \in {"returned", "exit"} /\ result # <<>> =>
            (\A m \in gave_up : ~Exists(save_dir, m)) /\ collected_depots = result)

\* C17 witness: the key file gave depots, get gave up on the only manifest of
\* the tree, and the depots are returned
C17_Witness ==
    /\ pc = "returned"
    /\ run = 1
    /\ result # <<>>
    /\ TreeManifests # {}
    /\ gave_up = TreeManifests
    /\ save_dir = <<>>

\* s is the beginning of t
Prefix(s, t) == Len(s) <= Len(t) /\ SubSeq(t, 1, Len(s)) = s

\* C18: every step leaves the depots collected so far at the head of the
\* collection, unless an exception ends the run and the collection with it;
\* every step leaves each file of save_dir in its place with its content
C18_OnlyGrow ==
    /\ [][pc' \notin {"raised", "cancelled"} =>
            Prefix(collected_depots, collected_depots')]_vars
    /\ [][Prefix(save_dir, save_dir')]_vars

\* C18 witness: the first repository left two manifests and no depot; the
\* second one gave two depots and lists a manifest of the same name, and
\* the file the first one left is as it was
C18_Witness ==
    /\ pc = "returned"
    /\ run = 1
    /\ repo = 2
    /\ r2_tree = <<Key_vdf, Manifest1>>
    /\ Len(collected_depots) = 2
    /\ save_dir = << [name |-> Manifest1, data |-> Blob(1)],
                     [name |-> Manifest10, data |-> Blob(1)] >>

-----------------------------------------------------------------------------
(* Termination *)

\* the run is over: main returned, with a script (DONE) or without (FAILED),
\* or an exception ended the process
Terminal == pc \in {"exit", "raised", "cancelled"}

\* C19: a run whose requests are all answered ends; a call of get makes at
\* most RetryBudget passes over the mirrors; the repositories are visited in
\* order, a branch request being sent to a repository only once; and no step
\* follows the end of the run
C19_RunTerminates ==
    /\ <>Terminal
    /\ [](/\ Len(contacted) <= RetryBudget * NMirrors
          /\ retry \in 0..RetryBudget
          /\ pc = "get" => retry > 0)
    /\ [][/\ repo' >= repo
          /\ pc = "branch" => repo \notin queried
          /\ pc' = "branch" => (pc = "normalize" \/ repo' = repo + 1)]_vars
    /\ [][~Terminal]_vars

\* C19 witness: the run ended without a script after the fourth repository;
\* a manifest of the first one was saved
C19_Witness ==
    /\ pc = "exit"
    /\ repo = NRepos
    /\ queried = 1..NRepos
    /\ ~lua_written
    /\ Len(save_dir) = 2

-----------------------------------------------------------------------------
(* Provenance of the manifests *)

\* C20 as claimed: in a run that started with an empty directory, every file
\* of save_dir was fetched from the repository being searched, so that the
\* repositories left behind without depots have left no file; and no manifest
\* of the tree of the repository being searched is found present, hence
\* skipped, when the loop comes to it
C20_FilesFromSelectedSource ==
    run = 1 =>
        /\ \A i \in DOMAIN save_dir : save_dir[i].data.from = repo
        /\ (pc = "manifest_loop" /\ item \in DOMAIN r2_tree
                /\ IsManifest(r2_tree[item])) =>
              ~Exists(save_dir, r2_tree[item])

====
